---- MODULE Spec2Model ----
(***************************************************************************)
(* LighterStandaloneService: the decision listener, processDecision,       *)
(* validateDecision, executeTrade and the daily reset of                   *)
(* src/lighter-background-service-standalone.js.                           *)
(*                                                                         *)
(* The service is one Node.js event loop.  Every `await` on real I/O (a    *)
(* Firestore write, an HTTP call, a timer) ends a step: between two steps  *)
(* of one processDecision call the listener callback, the steps of other   *)
(* processDecision calls and the reset timer may run.  Code between two    *)
(* awaits runs as one atomic action.                                       *)
(*                                                                         *)
(* Spec is the running service.  SpecValidate, SpecSizing and SpecSchedule  *)
(* use the same actions from other starting points: one call about to run  *)
(* validateDecision in any state of the service, one call about to size    *)
(* its order, and the service with its reset timer armed for midnight.     *)
(* SpecShutdown adds the data and health timers and shutdown(), SpecStore  *)
(* lets every log write fail, SpecStoreLost lets initializeFirebase clear  *)
(* this.db under the running listener, and SpecTimeouts states which       *)
(* awaited calls the code forces to return.  SpecThrottle is the shared    *)
(* RateLimiter on its own, called from several tasks.                      *)
(*                                                                         *)
(* SpecReconnect and SpecRL80 are LighterBackgroundService: its reconnect  *)
(* loop (src/lighter-background-service.js) and its RL80 decision path     *)
(* (handleRL80Decision, passesSafetyChecks, executeRL80Decision);          *)
(* SpecRL80Fair adds that the calls executeRL80Decision awaits return.     *)
(*                                                                         *)
(* Units: confidence is in percent (0.6 is 60), money in whole USD, time   *)
(* in cooldown periods (cooldownMs is CooldownMs units).       A text is   *)
(* the sequence of its words; String.includes(w) is word membership,       *)
(* case-sensitive as in JavaScript.                                        *)
(***************************************************************************)
EXTENDS Integers, Sequences, FiniteSets, TLC

\* ------------------------------------------------------------------ bounds
MaxDeliveries == 3      \* snapshots delivered to the listener in one run
MaxInFlight == 2        \* processDecision calls that have not returned yet
MaxTimestamp == 2       \* decision timestamps are 1..MaxTimestamp
MaxTicks == 1           \* clock advances in one run
MaxResets == 1          \* firings of the daily reset timer in one run
MaxTradesChoice == 2    \* MAX_DAILY_TRADES is drawn from 1..MaxTradesChoice
DayLength == 3          \* clock units in a UTC day, where the day is modelled
MaxDays == 2            \* midnights the armed reset timer fires at in one run
MaxPending == 2         \* reconnect timers, probes or sockets pending at once
MaxAttemptsCounted == 11 \* reconnection attempts followed in one run
MaxRL80Deliveries == 3  \* RL80 snapshots delivered in one run
MaxThrottleCalls == 3   \* calls of throttle in one run
MaxLimiterTime == 8     \* the limiter's clock runs to this instant
MaxFirings == 2         \* firings of the data and health timers in one run

\* --------------------------------------------------------- program values
NoDecisionId == 0       \* lastDecisionId: null (no timestamp equals it)
MinConfidence == 60     \* MIN_TRADE_CONFIDENCE default 0.6
MaxDailyLossDefault == 50
MaxPositionSizeUSD == 100   \* MAX_POSITION_SIZE_USD default
QuantityScale == 1000000    \* token amounts are in millionths of a token
NoPositionSize == 0     \* decision.position_size absent (falsy, as is 0)
NoPrice == 0            \* getMarketPrice returned null
MaxReconnectAttempts == 10  \* this.maxReconnectAttempts
RL80CooldownMs == 1      \* rl80State.safetyChecks.cooldownMs, in clock units
RL80MinConfidence == 50  \* the 0.5 of passesSafetyChecks, in percent
RL80MaxDailyTrades == 50 \* rl80State.safetyChecks.maxDailyTrades
MinInterval == 2         \* RateLimiter.minInterval (8 s), in units of 4 s
CooldownMs == 1         \* TRADE_COOLDOWN_MS, in model time units

NullText == << >>       \* haltReason: null

Includes(text, word) == \E i \in 1..Len(text) : text[i] = word

Actions == {"BUY", "SELL", "HOLD", "EMERGENCY_STOP"}
Symbols == {"ETH", "DOGE"}
Confidences == {30, 90}
Reasonings == { <<"risk", "spike">>, <<"daily", "loss", "breach">> }
Timestamps == 1..MaxTimestamp

\* The decision documents the source may deliver.  symbol and confidence are
\* varied where the code reads them (BUY) and on EMERGENCY_STOP; the
\* reasoning is varied where the code reads it (EMERGENCY_STOP).
Decisions ==
    { [action |-> "BUY", symbol |-> sc[1], confidence |-> sc[2],
       reasoning |-> <<"risk", "spike">>, position_size |-> NoPositionSize,
       timestamp |-> t] :
         sc \in {<<"ETH", 90>>, <<"ETH", 30>>, <<"DOGE", 90>>},
         t \in Timestamps }
    \cup
    { [action |-> a, symbol |-> "ETH", confidence |-> 90,
       reasoning |-> <<"risk", "spike">>, position_size |-> NoPositionSize,
       timestamp |-> t] :
         a \in {"SELL", "HOLD"}, t \in Timestamps }
    \cup
    { [action |-> "EMERGENCY_STOP", symbol |-> sc[1], confidence |-> sc[2],
       reasoning |-> r, position_size |-> NoPositionSize, timestamp |-> t] :
         sc \in {<<"ETH", 90>>, <<"DOGE", 30>>}, r \in Reasonings,
         t \in Timestamps }

VARIABLES
    tradingConfig,   \* this.tradingConfig, static after construction
    lighterConfig,   \* this.lighterConfig: are apiKey and walletPrivateKey set
    tradingState,    \* this.tradingState
    now,             \* Date.now()
    tasks,           \* the processDecision calls that have not returned, by id
    processed,       \* timestamps passed to processDecision; call i got processed[i]
    tradeHistory,    \* tradeHistory[i]: log entries written by call i
    delivered,       \* timestamps of the snapshots delivered so far
    resets,          \* firings of the reset timer so far
    resetTimer,      \* the timer scheduleDailyReset arms, and when it is due
    service,         \* this.isRunning, the listener subscription, the process
    periodic,        \* the firings of the data and health timers so far
    lostWrites,      \* <<i, k>>: the store write of tradeHistory[i][k] failed
    lbs,             \* LighterBackgroundService: connection and reconnect state
    rl80,            \* LighterBackgroundService: this.rl80State and its calls
    limiter          \* RateLimiter: lastCall, the throttle calls waiting, the returns

vars == <<tradingConfig, lighterConfig, tradingState, now, tasks, processed,
          tradeHistory, delivered, resets, resetTimer, service, periodic,
          lostWrites, lbs, rl80, limiter>>

TradingConfigs ==
    { [enabled |-> e, maxPositionSizeUSD |-> MaxPositionSizeUSD,
       maxDailyTrades |-> m, maxDailyLossUSD |-> l,
       minConfidence |-> MinConfidence, allowedSymbols |-> {"ETH", "BTC"},
       cooldownMs |-> CooldownMs] :
         e \in BOOLEAN, m \in 1..MaxTradesChoice,
         l \in {0, MaxDailyLossDefault} }

InitialTradingState ==
    [lastTradeTime |-> 0, dailyTradeCount |-> 0, dailyPnL |-> 0,
     lastDecisionId |-> NoDecisionId, tradingHalted |-> FALSE,
     haltReason |-> NullText]

\* In Spec the distance from construction to midnight is left open: the
\* reset timer is not armed with a time and may fire at any instant.
NoTimer == [armed |-> FALSE, due |-> 0]

\* LighterBackgroundService after its constructor: not started, nothing
\* scheduled.  attempts counts the reconnection attempts made so far.
LbsConstructed ==
    [isRunning |-> FALSE, reconnectAttempts |-> 0, timers |-> 0,
     probes |-> 0, connecting |-> 0, closing |-> 0, open |-> 0,
     attempts |-> 0, phase |-> "constructed"]

RemoveAt(seq, k) == SubSeq(seq, 1, k - 1) \o SubSeq(seq, k + 1, Len(seq))

\* new RateLimiter(): lastCall = 0; no throttle call made yet.
NewRateLimiter == [lastCall |-> 0, waiting |-> << >>, returns |-> << >>]

NoRL80Id == << >>       \* rl80State.lastDecisionId: null
NoExecutionTime == 0    \* rl80State.lastExecutionTime: null

\* this.rl80State after the constructor, with no call in flight and nothing
\* handled yet.
RL80Constructed ==
    [lastDecisionId |-> NoRL80Id, lastExecutionTime |-> NoExecutionTime,
     isExecuting |-> FALSE, executionCount |-> 0,
     calls |-> << >>, handled |-> << >>, finished |-> << >>]

\* The service after start(): isRunning set, the decision listener
\* subscribed, the process alive.
ServiceStarted ==
    [isRunning |-> TRUE, listening |-> TRUE, phase |-> "running", db |-> TRUE]

\* scheduleDailyReset: the setTimeout armed for the next UTC midnight
\* (midnights are the multiples of DayLength), and a variant armed for one
\* day after the call.
scheduleDailyResetFromNow(t) == [armed |-> TRUE, due |-> t + DayLength]
scheduleDailyReset(t) ==
    LET tomorrow == ((t \div DayLength) + 1) * DayLength
        msUntilMidnight == tomorrow - t
    IN  [armed |-> TRUE, due |-> t + msUntilMidnight]

Init ==
    /\ tradingConfig \in TradingConfigs
    /\ lighterConfig \in { [hasKeys |-> k] : k \in BOOLEAN }
    /\ tradingState = InitialTradingState
    /\ now = CooldownMs
    /\ tasks = << >>
    /\ processed = << >>
    /\ tradeHistory = << >>
    /\ delivered = << >>
    /\ resets = 0
    /\ resetTimer = NoTimer
    /\ service = ServiceStarted
    /\ periodic = << >>
    /\ lostWrites = {}
    /\ lbs = LbsConstructed
    /\ rl80 = RL80Constructed
    /\ limiter = NewRateLimiter

\* resetDailyStats (fired by the timers scheduleDailyReset sets up).
resetDailyStats(ts) ==
    LET zeroed == [ts EXCEPT !.dailyTradeCount = 0, !.dailyPnL = 0]
    IN  IF zeroed.tradingHalted /\ Includes(zeroed.haltReason, "daily")
        THEN [zeroed EXCEPT !.tradingHalted = FALSE, !.haltReason = NullText]
        ELSE zeroed

\* The reason texts of validateDecision.
HaltedReason(ts) == <<"Trading", "halted:">> \o ts.haltReason
InvalidActionReason == <<"Invalid", "action:">>
SymbolReason == <<"Symbol", "not", "allowed:">>
ConfidenceReason == <<"Confidence", "too", "low:">>
DailyLimitReason == <<"Daily", "trade", "limit", "reached:">>
DailyLossHaltReason == <<"Daily", "loss", "limit", "reached">>
DailyLossReason == <<"Daily", "loss", "limit", "reached:">>
CooldownReason == <<"Cooldown", "active:">>
CredentialsReason == <<"Lighter", "API", "keys", "not", "configured">>

\* The daily trade limit test of validateDecision, and a variant that lets
\* one trade too many through.
DailyTradeLimitReachedStrict(ts, cfg) == ts.dailyTradeCount > cfg.maxDailyTrades
DailyTradeLimitReached(ts, cfg) == ts.dailyTradeCount >= cfg.maxDailyTrades

\* The circuit breaker of validateDecision's daily-loss branch, a variant
\* that rejects without halting and one that also restarts the day's count.
TripLossBreakerNoHalt(ts) == ts
TripLossBreakerRestartsCount(ts) ==
    [ts EXCEPT !.tradingHalted = TRUE, !.haltReason = DailyLossHaltReason,
               !.dailyTradeCount = 0]
TripLossBreaker(ts) ==
    [ts EXCEPT !.tradingHalted = TRUE, !.haltReason = DailyLossHaltReason]

Verdict(valid, reason, ts) == [valid |-> valid, reason |-> reason, state |-> ts]

\* A variant of validateDecision that tests the confidence before the symbol.
CredentialsAssumed(lcfg) == FALSE

\* !this.lighterConfig.apiKey || !this.lighterConfig.walletPrivateKey
CredentialsMissing(lcfg) == ~lcfg.hasKeys

validateDecisionConfidenceFirst(decision, ts, cfg, lcfg, t) ==
    IF ts.tradingHalted
    THEN Verdict(FALSE, HaltedReason(ts), ts)
    ELSE IF decision.action \notin {"BUY", "SELL"}
    THEN Verdict(FALSE, InvalidActionReason, ts)
    ELSE IF decision.confidence < cfg.minConfidence
    THEN Verdict(FALSE, ConfidenceReason, ts)
    ELSE IF decision.symbol \notin cfg.allowedSymbols
    THEN Verdict(FALSE, SymbolReason, ts)
    ELSE IF DailyTradeLimitReached(ts, cfg)
    THEN Verdict(FALSE, DailyLimitReason, ts)
    ELSE IF ts.dailyPnL <= -cfg.maxDailyLossUSD
    THEN Verdict(FALSE, DailyLossReason, TripLossBreaker(ts))
    ELSE IF t - ts.lastTradeTime < cfg.cooldownMs
    THEN Verdict(FALSE, CooldownReason, ts)
    ELSE IF CredentialsMissing(lcfg)
    THEN Verdict(FALSE, CredentialsReason, ts)
    ELSE Verdict(TRUE, NullText, ts)

\* validateDecision: the verdict and tradingState as the call leaves it.
validateDecision(decision, ts, cfg, lcfg, t) ==
    IF ts.tradingHalted
    THEN Verdict(FALSE, HaltedReason(ts), ts)
    ELSE IF decision.action \notin {"BUY", "SELL"}
    THEN Verdict(FALSE, InvalidActionReason, ts)
    ELSE IF decision.symbol \notin cfg.allowedSymbols
    THEN Verdict(FALSE, SymbolReason, ts)
    ELSE IF decision.confidence < cfg.minConfidence
    THEN Verdict(FALSE, ConfidenceReason, ts)
    ELSE IF DailyTradeLimitReached(ts, cfg)
    THEN Verdict(FALSE, DailyLimitReason, ts)
    ELSE IF ts.dailyPnL <= -cfg.maxDailyLossUSD
    THEN Verdict(FALSE, DailyLossReason, TripLossBreaker(ts))
    ELSE IF t - ts.lastTradeTime < cfg.cooldownMs
    THEN Verdict(FALSE, CooldownReason, ts)
    ELSE IF CredentialsMissing(lcfg)
    THEN Verdict(FALSE, CredentialsReason, ts)
    ELSE Verdict(TRUE, NullText, ts)

\* logTradeDecision builds the entry and starts the store write.
LogEntry(status, reason) == [status |-> status, reason |-> reason]

\* A variant that writes the entry over the call's earlier one (a set on one
\* document per decision instead of an add).
logTradeDecisionOverwrites(i, status, reason) ==
    tradeHistory' = [tradeHistory EXCEPT ![i] = <<LogEntry(status, reason)>>]

logTradeDecision(i, status, reason) ==
    tradeHistory' = [tradeHistory EXCEPT ![i] = Append(@, LogEntry(status, reason))]

NoOrder == [side |-> "none"]

NewTask(decision) ==
    [decision |-> decision, pc |-> "logReceived", status |-> "received",
     reason |-> NullText, validations |-> 0, executeCalls |-> 0,
     submissions |-> 0, order |-> NoOrder]

\* A processDecision call starts / returns.
Started(ts, i, task) == [j \in DOMAIN ts \cup {i} |-> IF j = i THEN task ELSE ts[j]]
Returned(ts, i) == [j \in DOMAIN ts \ {i} |-> ts[j]]

\* The listener's dedupe test, and a variant that only knows the initial id.
AlreadyProcessedInitialOnly(decision, ts) == decision.timestamp = NoDecisionId
AlreadyProcessed(decision, ts) == decision.timestamp = ts.lastDecisionId

\* The process has not exited.
Alive == service.phase # "exited"

\* The onSnapshot callback up to the first await of processDecision.
Deliver(decision) ==
    /\ Alive /\ service.listening
    /\ Len(delivered) < MaxDeliveries
    /\ delivered' = Append(delivered, decision.timestamp)
    /\ IF AlreadyProcessed(decision, tradingState)
       THEN UNCHANGED <<tradingState, tasks, processed, tradeHistory>>
       ELSE /\ Cardinality(DOMAIN tasks) < MaxInFlight
            /\ tradingState' = [tradingState EXCEPT !.lastDecisionId = decision.timestamp]
            /\ processed' = Append(processed, decision.timestamp)
            /\ tasks' = Started(tasks, Len(processed) + 1, NewTask(decision))
            /\ tradeHistory' = Append(tradeHistory, <<LogEntry("received", NullText)>>)
    /\ UNCHANGED <<limiter, lbs, rl80, tradingConfig, lighterConfig, now, resets, resetTimer,
                   service, periodic, lostWrites>>

EmergencyHaltReason(decision) == <<"Emergency", "stop:">> \o decision.reasoning

\* The EMERGENCY_STOP branch of processDecision, and a variant that records
\* the reason without setting the flag.
EmergencyHaltReasonOnly(ts, decision) ==
    [ts EXCEPT !.haltReason = EmergencyHaltReason(decision)]
EmergencyHalt(ts, decision) ==
    [ts EXCEPT !.tradingHalted = TRUE, !.haltReason = EmergencyHaltReason(decision)]

\* The HOLD / EMERGENCY_STOP test of processDecision, and a variant that
\* lets HOLD fall through to validateDecision.
AcknowledgedOnlyEmergency(action) == action = "EMERGENCY_STOP"
AcknowledgedOnly(action) == action = "HOLD" \/ action = "EMERGENCY_STOP"

\* The master switch test of processDecision, and a variant that ignores
\* the switch.
TradingEnabledAlways(cfg) == TRUE
TradingEnabled(cfg) == cfg.enabled

\* The store write of the latest entry of call i returned; stored = FALSE
\* when it failed (logTradeDecision catches the error).
WriteErrorPropagates(i, stored) == stored /\ lostWrites' = lostWrites

\* The add() of logTradeDecision resolved, or rejected and was caught.
WriteReturned(i, stored) ==
    /\ stored => service.db
    /\ lostWrites' = IF stored THEN lostWrites
                     ELSE lostWrites \cup {<<i, Len(tradeHistory[i])>>}

\* processDecision from the return of the 'received' write to its next await.
AfterReceived(i, stored) ==
    LET task == tasks[i]
        d == task.decision
        v == validateDecision(d, tradingState, tradingConfig, lighterConfig, now)
    IN  /\ Alive
        /\ task.pc = "logReceived"
        /\ WriteReturned(i, stored)
        /\ IF AcknowledgedOnly(d.action)
           THEN IF d.action = "EMERGENCY_STOP"
                THEN /\ tradingState' = EmergencyHalt(tradingState, d)
                     /\ logTradeDecision(i, "emergency_stop", NullText)
                     /\ tasks' = [tasks EXCEPT ![i].pc = "logTerminal",
                                               ![i].status = "emergency_stop"]
                ELSE /\ tasks' = Returned(tasks, i)
                     /\ UNCHANGED <<tradingState, tradeHistory>>
           ELSE /\ tradingState' = v.state
                /\ IF ~v.valid
                   THEN /\ logTradeDecision(i, "rejected", v.reason)
                        /\ tasks' = [tasks EXCEPT ![i].pc = "logTerminal",
                                                  ![i].status = "rejected",
                                                  ![i].reason = v.reason,
                                                  ![i].validations = @ + 1]
                   ELSE IF ~TradingEnabled(tradingConfig)
                   THEN /\ logTradeDecision(i, "simulated", NullText)
                        /\ tasks' = [tasks EXCEPT ![i].pc = "logTerminal",
                                                  ![i].status = "simulated",
                                                  ![i].validations = @ + 1]
                   ELSE /\ tasks' = [tasks EXCEPT ![i].pc = "getMarketPrice",
                                                  ![i].status = "executing",
                                                  ![i].validations = @ + 1,
                                                  ![i].executeCalls = @ + 1]
                        /\ UNCHANGED tradeHistory
        /\ UNCHANGED <<limiter, lbs, rl80, tradingConfig, lighterConfig, now, processed, delivered,
                       resets, resetTimer, service, periodic>>

\* Variants of the failure branch: one that goes back to send the order
\* again, one that records the failed attempt as the last trade.
TradeFailedResubmits(i, error) ==
    /\ tasks' = [tasks EXCEPT ![i].pc = "throttle"]
    /\ UNCHANGED <<tradingState, tradeHistory>>
TradeFailedLogsExecuted(i, error) ==
    /\ logTradeDecision(i, "executed", NullText)
    /\ tasks' = [tasks EXCEPT ![i].pc = "logTerminal", ![i].status = "failed",
                              ![i].reason = error]
    /\ UNCHANGED tradingState
TradeFailedStartsCooldown(i, error) ==
    /\ logTradeDecision(i, "failed", error)
    /\ tasks' = [tasks EXCEPT ![i].pc = "logTerminal", ![i].status = "failed",
                              ![i].reason = error]
    /\ tradingState' = [tradingState EXCEPT !.lastTradeTime = now]

\* executeTrade returned success: false; processDecision logs 'failed'.
TradeFailed(i, error) ==
    /\ logTradeDecision(i, "failed", error)
    /\ tasks' = [tasks EXCEPT ![i].pc = "logTerminal", ![i].status = "failed",
                              ![i].reason = error]
    /\ UNCHANGED tradingState

Min(a, b) == IF a <= b THEN a ELSE b

\* The position sizing of executeTrade (finalSizeUSD), and a variant without
\* the cap.  `position_size || x` takes x when position_size is falsy.
PositionSizeUncapped(decision, cfg) ==
    LET maxSize == cfg.maxPositionSizeUSD
        confidenceAdjustedSize == (maxSize * decision.confidence) \div 100
    IN  IF decision.position_size # NoPositionSize
        THEN decision.position_size
        ELSE confidenceAdjustedSize
PositionSize(decision, cfg) ==
    LET maxSize == cfg.maxPositionSizeUSD
        confidenceAdjustedSize == (maxSize * decision.confidence) \div 100
        positionSizeUSD == IF decision.position_size # NoPositionSize
                           THEN decision.position_size
                           ELSE confidenceAdjustedSize
    IN  Min(positionSizeUSD, maxSize)

\* tokenAmount = finalSizeUSD / marketData.price, in millionths of a token.
TokenAmount(finalSizeUSD, price) == (finalSizeUSD * QuantityScale) \div price

\* The order executeTrade works out from the decision and the quoted price.
BuildOrder(decision, cfg, price) ==
    LET finalSizeUSD == PositionSize(decision, cfg)
    IN  [side |-> IF decision.action = "BUY" THEN "buy" ELSE "sell",
         market |-> decision.symbol,
         finalSizeUSD |-> finalSizeUSD,
         tokenAmount |-> TokenAmount(finalSizeUSD, price),
         price |-> price]

\* executeTrade from the return of getMarketPrice to its next await.
PriceReturned(i, price) ==
    /\ Alive
    /\ tasks[i].pc = "getMarketPrice"
    /\ IF price # NoPrice
       THEN /\ tasks' = [tasks EXCEPT
                           ![i].pc = "throttle",
                           ![i].order = BuildOrder(tasks[i].decision,
                                                   tradingConfig, price)]
            /\ UNCHANGED <<tradingState, tradeHistory>>
       ELSE TradeFailed(i, <<"Could", "not", "fetch", "market", "price">>)
    /\ UNCHANGED <<limiter, lbs, rl80, tradingConfig, lighterConfig, now, processed, delivered,
                   resets, resetTimer, service, periodic, lostWrites>>

\* executeTrade from the return of the auth token, signature and throttle
\* awaits to the axios.post of send_tx; signed = FALSE when one of them threw.
SendOrder(i, signed) ==
    /\ Alive
    /\ tasks[i].pc = "throttle"
    /\ IF signed
       THEN /\ tasks' = [tasks EXCEPT ![i].pc = "sendTx",
                                      ![i].submissions = @ + 1]
            /\ UNCHANGED <<tradingState, tradeHistory>>
       ELSE TradeFailed(i, <<"signing", "failed">>)
    /\ UNCHANGED <<limiter, lbs, rl80, tradingConfig, lighterConfig, now, processed, delivered,
                   resets, resetTimer, service, periodic, lostWrites>>

GatewayOutcomes == {"success", "failure"}

\* The error executeTrade returns for a send_tx call that did not succeed:
\* the gateway's error text, or the message of the transport error.
GatewayError(outcome) == <<"gateway", outcome>>

\* The prices getMarketPrice quotes in Spec, and in SpecSizing.
QuotedPrices == {2000}
SizingPrices == {2000, 50000}

\* The state update of processDecision after a successful executeTrade, and
\* a variant that counts the trade twice and one that books a loss for it.
RecordTradeCountsTwice(ts, t) ==
    [ts EXCEPT !.lastTradeTime = t, !.dailyTradeCount = @ + 2]
RecordTradeBooksLoss(ts, t) ==
    [ts EXCEPT !.lastTradeTime = t, !.dailyTradeCount = @ + 1,
               !.dailyPnL = @ - MaxDailyLossDefault]
RecordTrade(ts, t) ==
    [ts EXCEPT !.lastTradeTime = t, !.dailyTradeCount = @ + 1]

\* The send_tx response (or its failure) up to the next await of processDecision.
GatewayReturned(i, outcome) ==
    /\ Alive
    /\ tasks[i].pc = "sendTx"
    /\ IF outcome = "success"
       THEN /\ tradingState' = RecordTrade(tradingState, now)
            /\ logTradeDecision(i, "executed", NullText)
            /\ tasks' = [tasks EXCEPT ![i].pc = "logTerminal",
                                      ![i].status = "executed"]
       ELSE TradeFailed(i, GatewayError(outcome))
    /\ UNCHANGED <<limiter, lbs, rl80, tradingConfig, lighterConfig, now, processed, delivered,
                   resets, resetTimer, service, periodic, lostWrites>>

\* The terminal log write returned; processDecision returns.
LogWritten(i, stored) ==
    /\ Alive
    /\ tasks[i].pc = "logTerminal"
    /\ WriteReturned(i, stored)
    /\ tasks' = Returned(tasks, i)
    /\ UNCHANGED <<limiter, lbs, rl80, tradingConfig, lighterConfig, tradingState, now, processed,
                   tradeHistory, delivered, resets, resetTimer, service,
                   periodic>>

\* A firing of the daily reset timer: the setTimeout callback, which starts
\* the 24 hour setInterval, or a later firing of that interval.
DailyReset ==
    /\ Alive
    /\ IF resetTimer.armed
       THEN now = resetTimer.due /\ resets < MaxDays
       ELSE resets < MaxResets
    /\ resets' = resets + 1
    /\ tradingState' = resetDailyStats(tradingState)
    /\ resetTimer' = IF resetTimer.armed
                     THEN [resetTimer EXCEPT !.due = now + DayLength]
                     ELSE resetTimer
    /\ UNCHANGED <<limiter, lbs, rl80, tradingConfig, lighterConfig, now, tasks, processed,
                   tradeHistory, delivered, service, periodic, lostWrites>>

\* The clock advances; a timer that is due fires before it advances further.
Tick ==
    /\ Alive
    /\ IF resetTimer.armed
       THEN now < resetTimer.due
       ELSE now < CooldownMs + MaxTicks
    /\ now' = now + 1
    /\ UNCHANGED <<limiter, lbs, rl80, tradingConfig, lighterConfig, tradingState, tasks,
                   processed, tradeHistory, delivered, resets, resetTimer,
                   service, periodic, lostWrites>>

\* The data-collection and health timers start() arms with setInterval.
PeriodicTasks == {"marketData", "agentContext", "lighterData", "healthCheck"}

\* The callbacks that begin with `if (!this.isRunning) return`.
ChecksIsRunning(task) == task \in {"marketData", "agentContext", "lighterData"}

\* The try/catch around the body of every timer callback (updateServiceStatus
\* for the health check), and a variant where the error escapes the callback
\* and ends the process.
UncaughtFiringError(svc) == [svc EXCEPT !.phase = "exited"]
CatchFiringError(svc) == svc

\* One firing of a data or health timer: skipped when the callback checks
\* isRunning and finds it false, else a fetch and a store write that succeed
\* ("ok") or fail ("failed").
PeriodicFires(task, outcome) ==
    /\ Alive
    /\ Len(periodic) < MaxFirings
    /\ IF ChecksIsRunning(task) /\ ~service.isRunning
       THEN outcome = "skipped"
       ELSE outcome \in {"ok", "failed"}
    /\ periodic' = Append(periodic, [task |-> task, outcome |-> outcome])
    /\ service' = IF outcome = "failed" THEN CatchFiringError(service)
                  ELSE service
    /\ UNCHANGED <<limiter, lbs, rl80, tradingConfig, lighterConfig, tradingState, now, tasks,
                   processed, tradeHistory, delivered, resets, resetTimer,
                   lostWrites>>

stopDecisionListener(svc) == [svc EXCEPT !.listening = FALSE]

\* shutdown() up to its await of the 'stopped' status write.
ShutdownBegins ==
    /\ service.phase = "running"
    /\ service' = [stopDecisionListener([service EXCEPT !.isRunning = FALSE])
                     EXCEPT !.phase = "stopping"]
    /\ UNCHANGED <<limiter, lbs, rl80, tradingConfig, lighterConfig, tradingState, now, tasks,
                   processed, tradeHistory, delivered, resets, resetTimer,
                   periodic, lostWrites>>

\* The status write returned (or failed, which updateServiceStatus catches):
\* process.exit(0).
ShutdownExits ==
    /\ service.phase = "stopping"
    /\ service' = [service EXCEPT !.phase = "exited"]
    /\ UNCHANGED <<limiter, lbs, rl80, tradingConfig, lighterConfig, tradingState, now, tasks,
                   processed, tradeHistory, delivered, resets, resetTimer,
                   periodic, lostWrites>>

Next ==
    \/ \E d \in Decisions : Deliver(d)
    \/ \E i \in DOMAIN tasks : AfterReceived(i, TRUE)
    \/ \E i \in DOMAIN tasks, price \in {NoPrice} \cup QuotedPrices :
         PriceReturned(i, price)
    \/ \E i \in DOMAIN tasks, signed \in BOOLEAN : SendOrder(i, signed)
    \/ \E i \in DOMAIN tasks, o \in GatewayOutcomes : GatewayReturned(i, o)
    \/ \E i \in DOMAIN tasks : LogWritten(i, TRUE)
    \/ DailyReset
    \/ Tick

Spec == Init /\ [][Next]_vars

\* ------------------------------------------- validateDecision on its inputs
\* One processDecision call stands at the return of its 'received' write, in
\* any state a run can have brought the service to; its next step runs
\* validateDecision.  "CLOSE" is an action value the service does not know.
ValidateDecisions ==
    { [action |-> a, symbol |-> s, confidence |-> c,
       reasoning |-> <<"risk", "spike">>, position_size |-> NoPositionSize,
       timestamp |-> 1] :
         a \in {"BUY", "SELL", "CLOSE"}, s \in Symbols,
         c \in Confidences \cup {MinConfidence} }

HaltReasons == { DailyLossHaltReason, <<"Emergency", "stop:", "risk", "spike">> }

\* dailyPnL is 0 in every state (no code writes another value); a trade count
\* above 0 comes with the time of the last trade.
ValidateStates(t) ==
    { [lastTradeTime |-> l, dailyTradeCount |-> c, dailyPnL |-> 0,
       lastDecisionId |-> 1, tradingHalted |-> FALSE, haltReason |-> NullText] :
         l \in {0} \cup CooldownMs..t, c \in 0..MaxTradesChoice }
    \cup
    { [lastTradeTime |-> l, dailyTradeCount |-> c, dailyPnL |-> 0,
       lastDecisionId |-> 1, tradingHalted |-> TRUE, haltReason |-> r] :
         l \in {0} \cup CooldownMs..t, c \in 0..MaxTradesChoice,
         r \in HaltReasons }

InitValidate ==
    /\ tradingConfig \in TradingConfigs
    /\ lighterConfig \in { [hasKeys |-> k] : k \in BOOLEAN }
    /\ now \in CooldownMs..(CooldownMs + MaxTicks)
    /\ tradingState \in { ts \in ValidateStates(now) :
                             ts.lastTradeTime = 0 => ts.dailyTradeCount = 0 }
    /\ \E d \in ValidateDecisions : tasks = Started(<< >>, 1, NewTask(d))
    /\ processed = <<1>>
    /\ tradeHistory = << <<LogEntry("received", NullText)>> >>
    /\ delivered = <<1>>
    /\ resets = 0
    /\ resetTimer = NoTimer
    /\ service = ServiceStarted
    /\ periodic = << >>
    /\ lostWrites = {}
    /\ lbs = LbsConstructed
    /\ rl80 = RL80Constructed
    /\ limiter = NewRateLimiter

NextValidate == \E i \in DOMAIN tasks : AfterReceived(i, TRUE)

SpecValidate == InitValidate /\ [][NextValidate]_vars

\* -------------------------------------------- position sizing on its inputs
\* One processDecision call stands inside executeTrade, awaiting the market
\* price, with trading enabled and a confidence threshold of 0.5.
SizingDecisions ==
    { [action |-> a, symbol |-> s, confidence |-> c,
       reasoning |-> <<"risk", "spike">>, position_size |-> p,
       timestamp |-> 1] :
         a \in {"BUY", "SELL"}, s \in {"ETH", "BTC"}, c \in {50, 90, 100},
         p \in {NoPositionSize, 40, MaxPositionSizeUSD, 500} }

InitSizing ==
    /\ tradingConfig \in { [c EXCEPT !.minConfidence = 50] :
                              c \in { k \in TradingConfigs :
                                        k.enabled /\ k.maxDailyLossUSD > 0 } }
    /\ lighterConfig = [hasKeys |-> TRUE]
    /\ now = CooldownMs
    /\ tradingState = [InitialTradingState EXCEPT !.lastDecisionId = 1]
    /\ \E d \in SizingDecisions :
         tasks = Started(<< >>, 1,
                         [NewTask(d) EXCEPT !.pc = "getMarketPrice",
                                            !.status = "executing",
                                            !.validations = 1,
                                            !.executeCalls = 1])
    /\ processed = <<1>>
    /\ tradeHistory = << <<LogEntry("received", NullText)>> >>
    /\ delivered = <<1>>
    /\ resets = 0
    /\ resetTimer = NoTimer
    /\ service = ServiceStarted
    /\ periodic = << >>
    /\ lostWrites = {}
    /\ lbs = LbsConstructed
    /\ rl80 = RL80Constructed
    /\ limiter = NewRateLimiter

NextSizing ==
    \E i \in DOMAIN tasks, price \in {NoPrice} \cup SizingPrices :
        PriceReturned(i, price)

SpecSizing == InitSizing /\ [][NextSizing]_vars

\* ------------------------------------------------- the reset timer in time
\* The service is constructed at some instant of a UTC day (day 1 of the
\* clock), enabled and with credentials; BUY decisions arrive and the clock
\* runs through MaxDays midnights.
ScheduleDecisions ==
    { d \in Decisions :
        d.action = "BUY" /\ d.symbol = "ETH" /\ d.confidence = 90 }

InitSchedule ==
    /\ tradingConfig \in { c \in TradingConfigs :
                              c.enabled /\ c.maxDailyLossUSD > 0 }
    /\ lighterConfig = [hasKeys |-> TRUE]
    /\ tradingState = InitialTradingState
    /\ now \in DayLength..(2 * DayLength - 1)
    /\ resetTimer = scheduleDailyReset(now)
    /\ service = ServiceStarted
    /\ periodic = << >>
    /\ lostWrites = {}
    /\ lbs = LbsConstructed
    /\ rl80 = RL80Constructed
    /\ limiter = NewRateLimiter
    /\ tasks = << >>
    /\ processed = << >>
    /\ tradeHistory = << >>
    /\ delivered = << >>
    /\ resets = 0

NextSchedule ==
    \/ \E d \in ScheduleDecisions : Deliver(d)
    \/ \E i \in DOMAIN tasks : AfterReceived(i, TRUE)
    \/ \E i \in DOMAIN tasks, price \in {NoPrice} \cup QuotedPrices :
         PriceReturned(i, price)
    \/ \E i \in DOMAIN tasks, signed \in BOOLEAN : SendOrder(i, signed)
    \/ \E i \in DOMAIN tasks, o \in GatewayOutcomes : GatewayReturned(i, o)
    \/ \E i \in DOMAIN tasks : LogWritten(i, TRUE)
    \/ DailyReset
    \/ Tick

SpecSchedule == InitSchedule /\ [][NextSchedule]_vars

\* ------------------------------------------------ timers and the shutdown
\* The started service, enabled and with credentials, with its data and
\* health timers and a shutdown signal that may arrive at any instant.
InitService ==
    /\ tradingConfig \in { c \in TradingConfigs :
                              c.enabled /\ c.maxDailyLossUSD > 0 }
    /\ lighterConfig = [hasKeys |-> TRUE]
    /\ tradingState = InitialTradingState
    /\ now = CooldownMs
    /\ tasks = << >>
    /\ processed = << >>
    /\ tradeHistory = << >>
    /\ delivered = << >>
    /\ resets = 0
    /\ resetTimer = NoTimer
    /\ service = ServiceStarted
    /\ periodic = << >>
    /\ lostWrites = {}
    /\ lbs = LbsConstructed
    /\ rl80 = RL80Constructed
    /\ limiter = NewRateLimiter

NextShutdown ==
    \/ \E d \in ScheduleDecisions : Deliver(d)
    \/ \E i \in DOMAIN tasks : AfterReceived(i, TRUE)
    \/ \E i \in DOMAIN tasks, price \in {NoPrice} \cup QuotedPrices :
         PriceReturned(i, price)
    \/ \E i \in DOMAIN tasks, signed \in BOOLEAN : SendOrder(i, signed)
    \/ \E i \in DOMAIN tasks, o \in GatewayOutcomes : GatewayReturned(i, o)
    \/ \E i \in DOMAIN tasks : LogWritten(i, TRUE)
    \/ DailyReset
    \/ \E task \in PeriodicTasks, outcome \in {"ok", "failed", "skipped"} :
         PeriodicFires(task, outcome)
    \/ ShutdownBegins
    \/ ShutdownExits

SpecShutdown == InitService /\ [][NextShutdown]_vars

\* ------------------------------------------------- store writes that fail
\* The started service with trade-log writes that may fail.
\* initializeFirebase's write test fails after start() has subscribed the
\* listener: this.db = null, and the listener stays subscribed.
FirestoreTestFails ==
    /\ Alive
    /\ service.db
    /\ service' = [service EXCEPT !.db = FALSE]
    /\ UNCHANGED <<limiter, lbs, rl80, tradingConfig, lighterConfig,
                   tradingState, now, tasks, processed, tradeHistory,
                   delivered, resets, resetTimer, periodic, lostWrites>>

NextStore ==
    \/ \E d \in ScheduleDecisions : Deliver(d)
    \/ \E i \in DOMAIN tasks, stored \in BOOLEAN : AfterReceived(i, stored)
    \/ \E i \in DOMAIN tasks, price \in {NoPrice} \cup QuotedPrices :
         PriceReturned(i, price)
    \/ \E i \in DOMAIN tasks, signed \in BOOLEAN : SendOrder(i, signed)
    \/ \E i \in DOMAIN tasks, o \in GatewayOutcomes : GatewayReturned(i, o)
    \/ \E i \in DOMAIN tasks, stored \in BOOLEAN : LogWritten(i, stored)
    \/ \E outcome \in {"ok", "failed"} : PeriodicFires("healthCheck", outcome)
    \/ Tick

SpecStore == InitService /\ [][NextStore]_vars

\* The store lost for good: after this.db = null every logTradeDecision
\* returns at its first line, before it every write is stored.
NextStoreLost ==
    \/ FirestoreTestFails
    \/ \E d \in ScheduleDecisions : Deliver(d)
    \/ \E i \in DOMAIN tasks : AfterReceived(i, service.db)
    \/ \E i \in DOMAIN tasks, price \in {NoPrice} \cup QuotedPrices :
         PriceReturned(i, price)
    \/ \E i \in DOMAIN tasks, signed \in BOOLEAN : SendOrder(i, signed)
    \/ \E i \in DOMAIN tasks, o \in GatewayOutcomes : GatewayReturned(i, o)
    \/ \E i \in DOMAIN tasks : LogWritten(i, service.db)
    \/ Tick

SpecStoreLost == InitService /\ [][NextStoreLost]_vars

\* ---------------------------------------------- calls that must return
\* What the code guarantees about the return of each awaited call of
\* processDecision.  getMarketPrice and send_tx are axios calls with a
\* timeout (10 s and 30 s) and the rate limiter waits on a timer, so the
\* steps after them are taken eventually; the tradeHistory add() of
\* logTradeDecision is awaited with no timeout, so nothing forces the steps
\* after a log write.

NextTimeouts ==
    \/ \E d \in ScheduleDecisions : Deliver(d)
    \/ \E i \in DOMAIN tasks : AfterReceived(i, TRUE)
    \/ \E i \in DOMAIN tasks, price \in {NoPrice} \cup QuotedPrices :
         PriceReturned(i, price)
    \/ \E i \in DOMAIN tasks, signed \in BOOLEAN : SendOrder(i, signed)
    \/ \E i \in DOMAIN tasks, o \in GatewayOutcomes : GatewayReturned(i, o)
    \/ \E i \in DOMAIN tasks : LogWritten(i, TRUE)
    \/ Tick

BoundedCallsReturn ==
    /\ WF_vars(\E i \in DOMAIN tasks, price \in {NoPrice} \cup QuotedPrices :
                 PriceReturned(i, price))
    /\ WF_vars(\E i \in DOMAIN tasks, signed \in BOOLEAN : SendOrder(i, signed))
    /\ WF_vars(\E i \in DOMAIN tasks, o \in GatewayOutcomes :
                 GatewayReturned(i, o))

SpecTimeouts == InitService /\ [][NextTimeouts]_vars /\ BoundedCallsReturn

\* ------------------------------- LighterBackgroundService: reconnection
\* src/lighter-background-service.js.  The service probes the Lighter HTTP
\* endpoint, then opens a WebSocket; a failing probe, a socket 'error' and a
\* socket 'close' each call scheduleReconnect.  A socket that fails to
\* connect emits 'error' and then 'close'.

standalone == <<tradingConfig, lighterConfig, tradingState, now, tasks,
                processed, tradeHistory, delivered, resets, resetTimer,
                service, periodic, lostWrites, limiter>>

LbsAlive == lbs.phase \in {"running", "stopping"}

\* start(): isRunning = true and the first connectToLighter call, whose
\* status probe is in flight.
LbsStarted ==
    [LbsConstructed EXCEPT !.isRunning = TRUE, !.probes = 1,
                           !.phase = "running"]

\* shutdown() up to its await: isRunning = false, this.ws.close().
LbsShutdown(l) ==
    [l EXCEPT !.isRunning = FALSE, !.phase = "stopping",
              !.open = 0, !.closing = @ + l.open]

scheduleReconnect(l) ==
    IF ~l.isRunning \/ l.reconnectAttempts >= MaxReconnectAttempts
    THEN IF l.reconnectAttempts >= MaxReconnectAttempts
         THEN LbsShutdown(l)
         ELSE l
    ELSE [l EXCEPT !.reconnectAttempts = @ + 1, !.timers = @ + 1]

\* The setTimeout of scheduleReconnect fires: connectToLighter is called
\* and sends its status probe.
LbsTimerFires ==
    /\ LbsAlive
    /\ lbs.timers > 0
    /\ lbs.attempts < MaxAttemptsCounted
    /\ lbs.probes < MaxPending
    /\ lbs' = [lbs EXCEPT !.timers = @ - 1, !.attempts = @ + 1,
                          !.probes = @ + 1]
    /\ UNCHANGED <<rl80, standalone>>

\* connectToLighter after its await: a 200 response resets the counter and
\* opens a WebSocket; an error or timeout schedules a reconnect.
LbsProbeReturns(ok) ==
    /\ LbsAlive
    /\ lbs.probes > 0
    /\ lbs.timers < MaxPending
    /\ lbs.connecting < MaxPending
    /\ lbs' = IF ok
              THEN [lbs EXCEPT !.probes = @ - 1, !.reconnectAttempts = 0,
                               !.connecting = @ + 1]
              ELSE scheduleReconnect([lbs EXCEPT !.probes = @ - 1])
    /\ UNCHANGED <<rl80, standalone>>

\* ws.on('open')
LbsSocketOpen ==
    /\ LbsAlive
    /\ lbs.connecting > 0
    /\ lbs' = [lbs EXCEPT !.connecting = @ - 1, !.open = @ + 1,
                          !.reconnectAttempts = 0]
    /\ UNCHANGED <<rl80, standalone>>

\* ws.on('error') of a socket that could not connect; its 'close' follows.
LbsSocketError ==
    /\ LbsAlive
    /\ lbs.connecting > 0
    /\ lbs.timers < MaxPending
    /\ lbs' = scheduleReconnect([lbs EXCEPT !.connecting = @ - 1,
                                            !.closing = @ + 1])
    /\ UNCHANGED <<rl80, standalone>>

\* ws.on('close'), of an open socket or after an 'error'.
LbsSocketClose ==
    /\ LbsAlive
    /\ lbs.timers < MaxPending
    /\ \/ /\ lbs.closing > 0
          /\ lbs' = scheduleReconnect([lbs EXCEPT !.closing = @ - 1])
       \/ /\ lbs.open > 0
          /\ lbs' = scheduleReconnect([lbs EXCEPT !.open = @ - 1])
    /\ UNCHANGED <<rl80, standalone>>

\* SIGINT / SIGTERM
LbsSignal ==
    /\ lbs.phase = "running"
    /\ lbs' = LbsShutdown(lbs)
    /\ UNCHANGED <<rl80, standalone>>

\* shutdown() after its await of the status write: process.exit(0).
LbsExits ==
    /\ lbs.phase = "stopping"
    /\ lbs' = [lbs EXCEPT !.phase = "exited"]
    /\ UNCHANGED <<rl80, standalone>>

InitReconnect ==
    /\ tradingConfig \in { c \in TradingConfigs :
                              /\ c.enabled /\ c.maxDailyLossUSD > 0
                              /\ c.maxDailyTrades = 1 }
    /\ lighterConfig = [hasKeys |-> TRUE]
    /\ tradingState = InitialTradingState
    /\ now = CooldownMs
    /\ resetTimer = NoTimer
    /\ service = ServiceStarted
    /\ periodic = << >>
    /\ lostWrites = {}
    /\ tasks = << >>
    /\ processed = << >>
    /\ tradeHistory = << >>
    /\ delivered = << >>
    /\ resets = 0
    /\ lbs = LbsStarted
    /\ rl80 = RL80Constructed
    /\ limiter = NewRateLimiter

NextReconnect ==
    \/ LbsTimerFires
    \/ \E ok \in BOOLEAN : LbsProbeReturns(ok)
    \/ LbsSocketOpen
    \/ LbsSocketError
    \/ LbsSocketClose
    \/ LbsSignal
    \/ LbsExits

SpecReconnect == InitReconnect /\ [][NextReconnect]_vars

\* ------------------------------ LighterBackgroundService: RL80 decisions
\* handleRL80Decision, passesSafetyChecks and executeRL80Decision.  The
\* clock unit here is one RL80 cooldown period; a day is DayLength units.

\* The actions executeRL80Decision has a case for, and one it has none for.
RL80Executable == {"BUY", "SELL", "HOLD"}
RL80Actions == Actions \cup {"CLOSE"}

RL80Decisions ==
    { [action |-> a, confidence |-> c, timestamp |-> t] :
        a \in RL80Actions, c \in Confidences, t \in Timestamps }

\* `${decision.timestamp}_${decision.action}`
RL80DecisionId(d) == <<d.timestamp, d.action>>

\* new Date(t).toDateString()
DateString(t) == t \div DayLength

SafetyVerdict(pass, why, st) == [pass |-> pass, why |-> why, state |-> st]

\* Today against the date of the last execution: a new day zeroes the count.
RL80DailyCount(st, t) ==
    IF st.lastExecutionTime = NoExecutionTime
       \/ DateString(t) # DateString(st.lastExecutionTime)
    THEN [st EXCEPT !.executionCount = 0]
    ELSE st

passesSafetyChecksWithoutLock(decision, st, t) ==
    IF /\ st.lastExecutionTime # NoExecutionTime
       /\ t - st.lastExecutionTime < RL80CooldownMs
    THEN SafetyVerdict(FALSE, "cooldown", st)
    ELSE IF decision.confidence < RL80MinConfidence
    THEN SafetyVerdict(FALSE, "lowConfidence", st)
    ELSE IF decision.action = "EMERGENCY_STOP"
    THEN SafetyVerdict(FALSE, "emergencyStop", [st EXCEPT !.isExecuting = TRUE])
    ELSE IF RL80DailyCount(st, t).executionCount >= RL80MaxDailyTrades
    THEN SafetyVerdict(FALSE, "dailyLimit", RL80DailyCount(st, t))
    ELSE SafetyVerdict(TRUE, "passed", RL80DailyCount(st, t))

passesSafetyChecks(decision, st, t) ==
    IF /\ st.lastExecutionTime # NoExecutionTime
       /\ t - st.lastExecutionTime < RL80CooldownMs
    THEN SafetyVerdict(FALSE, "cooldown", st)
    ELSE IF st.isExecuting
    THEN SafetyVerdict(FALSE, "busy", st)
    ELSE IF decision.confidence < RL80MinConfidence
    THEN SafetyVerdict(FALSE, "lowConfidence", st)
    ELSE IF decision.action = "EMERGENCY_STOP"
    THEN SafetyVerdict(FALSE, "emergencyStop", [st EXCEPT !.isExecuting = TRUE])
    ELSE IF RL80DailyCount(st, t).executionCount >= RL80MaxDailyTrades
    THEN SafetyVerdict(FALSE, "dailyLimit", RL80DailyCount(st, t))
    ELSE SafetyVerdict(TRUE, "passed", RL80DailyCount(st, t))

\* What handleRL80Decision did with a snapshot, and whether an
\* executeRL80Decision call was in flight when it arrived.
Handled(d, why) ==
    [decision |-> d, verdict |-> why, executing |-> Len(rl80.calls) > 0]

FinallyKeepsLock(st) == st

\* finally { this.rl80State.isExecuting = false; }
Finally(st) == [st EXCEPT !.isExecuting = FALSE]

\* After the switch of executeRL80Decision: whatever the case returned,
\* lastExecutionTime = Date.now() and executionCount++; a throw skips both.
RecordExecution(st, outcome, t) ==
    IF outcome = "threw"
    THEN st
    ELSE [st EXCEPT !.lastExecutionTime = t, !.executionCount = @ + 1]

\* What the case of the switch can give for an action: a mock fill for BUY
\* and for SELL with a position, 'skipped' for SELL without one, the hold
\* record for HOLD, or an exception.
RL80Outcomes(action) ==
    CASE action = "BUY" -> {"filled", "threw"}
      [] action = "SELL" -> {"filled", "skipped", "threw"}
      [] OTHER -> {"held", "threw"}

\* The snapshot callback: handleRL80Decision up to its first await, which is
\* inside executeRL80Decision (isExecuting = true, then the order call).  An
\* action without a case returns from the switch at once, through finally.
handleRL80Decision(d) ==
    LET st == [rl80 EXCEPT !.lastDecisionId = RL80DecisionId(d)]
        v == passesSafetyChecks(d, st, now)
    IN  /\ LbsAlive
        /\ Len(rl80.handled) < MaxRL80Deliveries
        /\ IF rl80.lastDecisionId = RL80DecisionId(d)
           THEN rl80' = [rl80 EXCEPT !.handled = Append(@, Handled(d, "duplicate"))]
           ELSE IF ~v.pass
           THEN rl80' = [v.state EXCEPT !.handled = Append(@, Handled(d, v.why))]
           ELSE IF d.action \notin RL80Executable
           THEN rl80' = [Finally([v.state EXCEPT !.isExecuting = TRUE]) EXCEPT
                           !.handled = Append(@, Handled(d, v.why)),
                           !.finished = Append(@, [decision |-> d,
                                                   outcome |-> "unknown"])]
           ELSE rl80' = [v.state EXCEPT
                           !.isExecuting = TRUE,
                           !.calls = Append(@, [decision |-> d, pc |-> "order",
                                                outcome |-> "none"]),
                           !.handled = Append(@, Handled(d, v.why))]
        /\ UNCHANGED <<lbs, standalone>>

\* executeBuyOrder / executeSellOrder / executeHold returned or threw:
\* success records the execution; either way logTradeExecution is awaited.
RL80OrderReturns(k, outcome) ==
    /\ LbsAlive
    /\ k \in 1..Len(rl80.calls)
    /\ rl80.calls[k].pc = "order"
    /\ outcome \in RL80Outcomes(rl80.calls[k].decision.action)
    /\ rl80' = [RecordExecution(rl80, outcome, now) EXCEPT
                  !.calls[k].pc = "log", !.calls[k].outcome = outcome]
    /\ UNCHANGED <<lbs, standalone>>

\* logTradeExecution returned: finally { isExecuting = false }.
RL80LogReturns(k) ==
    /\ LbsAlive
    /\ k \in 1..Len(rl80.calls)
    /\ rl80.calls[k].pc = "log"
    /\ rl80' = [Finally(rl80) EXCEPT
                  !.calls = RemoveAt(@, k),
                  !.finished = Append(@, [decision |-> rl80.calls[k].decision,
                                          outcome |-> rl80.calls[k].outcome])]
    /\ UNCHANGED <<lbs, standalone>>

InitRL80 ==
    /\ tradingConfig \in { c \in TradingConfigs :
                              /\ c.enabled /\ c.maxDailyLossUSD > 0
                              /\ c.maxDailyTrades = 1 }
    /\ lighterConfig = [hasKeys |-> TRUE]
    /\ tradingState = InitialTradingState
    /\ now = RL80CooldownMs
    /\ resetTimer = NoTimer
    /\ service = ServiceStarted
    /\ periodic = << >>
    /\ lostWrites = {}
    /\ tasks = << >>
    /\ processed = << >>
    /\ tradeHistory = << >>
    /\ delivered = << >>
    /\ resets = 0
    /\ lbs = LbsStarted
    /\ rl80 = RL80Constructed
    /\ limiter = NewRateLimiter

NextRL80 ==
    \/ \E d \in RL80Decisions : handleRL80Decision(d)
    \/ \E k \in 1..Len(rl80.calls), o \in {"filled", "skipped", "held", "threw"} :
         RL80OrderReturns(k, o)
    \/ \E k \in 1..Len(rl80.calls) : RL80LogReturns(k)
    \/ Tick

SpecRL80 == InitRL80 /\ [][NextRL80]_vars

\* The awaited calls of executeRL80Decision return: the order functions are
\* local (mock fills, no request), and the store answers the add() of
\* logTradeExecution or fails it, which the function catches.
RL80CallsReturn ==
    /\ WF_vars(\E k \in 1..Len(rl80.calls),
                  o \in {"filled", "skipped", "held", "threw"} :
                    RL80OrderReturns(k, o))
    /\ WF_vars(\E k \in 1..Len(rl80.calls) : RL80LogReturns(k))

SpecRL80Fair == InitRL80 /\ [][NextRL80]_vars /\ RL80CallsReturn

\* ------------------------------------------------------------ RateLimiter
\* throttle() reads the clock and lastCall, sleeps for what is missing of
\* minInterval, and sets lastCall when it wakes.  One instance is shared by
\* every API call of the service.  The clock unit here is 4 s, and timers
\* fire when due.

\* throttle() up to its await: with the interval already over it sets
\* lastCall and returns at once, otherwise it arms its timer.
ThrottleCalled ==
    /\ Len(limiter.waiting) + Len(limiter.returns) < MaxThrottleCalls
    /\ limiter' =
         IF now - limiter.lastCall < MinInterval
         THEN [limiter EXCEPT
                 !.waiting = Append(@, now + (MinInterval - (now - limiter.lastCall)))]
         ELSE [limiter EXCEPT !.lastCall = now, !.returns = Append(@, now)]
    /\ UNCHANGED <<lbs, rl80, tradingConfig, lighterConfig, tradingState, now,
                   tasks, processed, tradeHistory, delivered, resets,
                   resetTimer, service, periodic, lostWrites>>

\* The timer of a waiting call fires: lastCall = Date.now(), and it returns.
ThrottleWakes(k) ==
    /\ k \in 1..Len(limiter.waiting)
    /\ limiter.waiting[k] <= now
    /\ limiter' = [limiter EXCEPT !.lastCall = now,
                                  !.returns = Append(@, now),
                                  !.waiting = RemoveAt(@, k)]
    /\ UNCHANGED <<lbs, rl80, tradingConfig, lighterConfig, tradingState, now,
                   tasks, processed, tradeHistory, delivered, resets,
                   resetTimer, service, periodic, lostWrites>>

\* The clock advances, never past a timer that is due.
LimiterTick ==
    /\ now < MaxLimiterTime
    /\ \A k \in 1..Len(limiter.waiting) : limiter.waiting[k] > now
    /\ now' = now + 1
    /\ UNCHANGED <<limiter, lbs, rl80, tradingConfig, lighterConfig,
                   tradingState, tasks, processed, tradeHistory, delivered,
                   resets, resetTimer, service, periodic, lostWrites>>

InitThrottle ==
    /\ tradingConfig \in { c \in TradingConfigs :
                              /\ c.enabled /\ c.maxDailyLossUSD > 0
                              /\ c.maxDailyTrades = 1 }
    /\ lighterConfig = [hasKeys |-> TRUE]
    /\ tradingState = InitialTradingState
    /\ now = MinInterval
    /\ resetTimer = NoTimer
    /\ service = ServiceStarted
    /\ periodic = << >>
    /\ lostWrites = {}
    /\ tasks = << >>
    /\ processed = << >>
    /\ tradeHistory = << >>
    /\ delivered = << >>
    /\ resets = 0
    /\ lbs = LbsConstructed
    /\ rl80 = RL80Constructed
    /\ limiter = NewRateLimiter

NextThrottle ==
    \/ ThrottleCalled
    \/ \E k \in 1..Len(limiter.waiting) : ThrottleWakes(k)
    \/ LimiterTick

SpecThrottle == InitThrottle /\ [][NextThrottle]_vars

\* ---------------------------------------------------------------- claims

\* Steps of one processDecision call, recognised in a transition.
InSpan(i) == tasks[i].pc \in {"getMarketPrice", "throttle", "sendTx"}

ValidationStep(i) ==
    /\ i \in DOMAIN tasks /\ i \in DOMAIN tasks'
    /\ tasks'[i].validations = tasks[i].validations + 1

SubmissionStep(i) ==
    /\ i \in DOMAIN tasks /\ i \in DOMAIN tasks'
    /\ tasks'[i].submissions = tasks[i].submissions + 1

SuccessStep(i) ==
    /\ i \in DOMAIN tasks /\ i \in DOMAIN tasks'
    /\ tasks[i].pc = "sendTx" /\ tasks'[i].status = "executed"

ResetStep == resets' = resets + 1

DuplicateDeliveryStep ==
    /\ Len(delivered') = Len(delivered) + 1
    /\ Len(delivered) >= 1
    /\ delivered'[Len(delivered')] = delivered[Len(delivered)]

HasEntry(i, status, reason) ==
    \E k \in 1..Len(tradeHistory[i]) :
        tradeHistory[i][k] = LogEntry(status, reason)

\* C1: at most one decision is between the start of validateDecision and the
\* end of its execution at any time.
C1_OneDecisionInSpan ==
    Cardinality({ i \in DOMAIN tasks : InSpan(i) }) <= 1

\* C2: each distinct decision timestamp is passed to processDecision at most
\* once in a run, also when another timestamp is delivered in between.
C2_TimestampProcessedOnce ==
    \A a, b \in 1..Len(processed) : a # b => processed[a] # processed[b]

\* C3: a delivery whose timestamp equals that of the delivery before it is a
\* no-op: it starts no processDecision call (so no validateDecision and no
\* executeTrade), writes no log entry and changes no field of tradingState.
C3_DuplicateDeliveryNoOp ==
    [][ DuplicateDeliveryStep =>
          UNCHANGED <<tradingState, tasks, processed, tradeHistory>> ]_vars

\* C3 witness: a decision was delivered twice in succession and processed
\* once, the duplicate arriving while the call awaits the send_tx response.
C3_Witness ==
    /\ Len(delivered) = 2 /\ delivered[1] = delivered[2]
    /\ Len(processed) = 1
    /\ 1 \in DOMAIN tasks /\ tasks[1].pc = "sendTx"

\* C4: any two successful executions are at least cooldownMs apart (of two
\* valid BUY decisions arriving within cooldownMs, only one executes).
C4_ExecutionsCooldownApart ==
    [][ \A i \in DOMAIN tasks :
          SuccessStep(i) =>
            now - tradingState.lastTradeTime >= tradingConfig.cooldownMs ]_vars

\* A BUY/SELL decision that passes every check of validateDecision other than
\* the daily trade limit, in the current state.
OtherwiseValid(d) ==
    /\ ~tradingState.tradingHalted
    /\ d.action \in {"BUY", "SELL"}
    /\ d.symbol \in tradingConfig.allowedSymbols
    /\ d.confidence >= tradingConfig.minConfidence
    /\ tradingState.dailyPnL > -tradingConfig.maxDailyLossUSD
    /\ now - tradingState.lastTradeTime >= tradingConfig.cooldownMs
    /\ lighterConfig.hasKeys

\* C5: once dailyTradeCount (the successful executions since the last reset)
\* has reached maxDailyTrades, an otherwise-valid decision that is validated
\* is rejected with the daily-trade-limit reason; resetDailyStats sets
\* dailyTradeCount to 0, and below the limit an otherwise-valid decision is
\* accepted.
C5_DailyLimitEnforced ==
    [][ /\ \A i \in DOMAIN tasks :
             (ValidationStep(i) /\ OtherwiseValid(tasks[i].decision)) =>
               IF tradingState.dailyTradeCount >= tradingConfig.maxDailyTrades
               THEN /\ tasks'[i].status = "rejected"
                    /\ tasks'[i].reason = DailyLimitReason
                    /\ tradeHistory'[i] =
                         Append(tradeHistory[i], LogEntry("rejected", DailyLimitReason))
               ELSE tasks'[i].status \in {"executing", "simulated"}
        /\ ResetStep => tradingState'.dailyTradeCount = 0 ]_vars

\* C5 witness: with maxDailyTrades = 1, one decision was executed, a later one
\* rejected for the daily limit, and after the reset a third one executed.
C5_Witness ==
    /\ tradingConfig.maxDailyTrades = 1 /\ resets = 1
    /\ \E i, j \in 1..Len(tradeHistory) :
         /\ i < j
         /\ HasEntry(i, "rejected", DailyLimitReason)
         /\ HasEntry(j, "executed", NullText)

\* C6: no order is submitted (the send_tx POST) while tradingHalted is true.
C6_NoSubmissionWhileHalted ==
    [][ \A i \in DOMAIN tasks :
          SubmissionStep(i) => ~tradingState.tradingHalted ]_vars

LossLimitHit == tradingState.dailyPnL <= -tradingConfig.maxDailyLossUSD

\* C7 as stated: with dailyPnL <= -maxDailyLossUSD, every BUY/SELL decision
\* processed ends rejected with tradingHalted true, whatever its symbol,
\* confidence and the trade count.
C7_LossLimitAlwaysHalts ==
    [][ \A i \in DOMAIN tasks :
          ( /\ i \notin DOMAIN tasks'
            /\ tasks[i].decision.action \in {"BUY", "SELL"}
            /\ LossLimitHit )
          => (tasks[i].status = "rejected" /\ tradingState'.tradingHalted) ]_vars

\* The checks validateDecision makes between the halt check and the
\* daily-loss check.
PassesEarlierChecks(d) ==
    /\ d.symbol \in tradingConfig.allowedSymbols
    /\ d.confidence >= tradingConfig.minConfidence
    /\ tradingState.dailyTradeCount < tradingConfig.maxDailyTrades

\* C7 amended: with dailyPnL <= -maxDailyLossUSD every BUY/SELL decision that
\* is validated is rejected; tradingHalted is true when validateDecision
\* returns if trading was halted already or the decision passes the symbol,
\* confidence and daily-trade-limit checks (the breaker then sets the halt
\* with the daily-loss reason); otherwise the halt flag is left as it was.
C7_LossLimitRejects ==
    [][ \A i \in DOMAIN tasks :
          (ValidationStep(i) /\ LossLimitHit) =>
            /\ tasks'[i].status = "rejected"
            /\ IF tradingState.tradingHalted
               THEN tradingState' = tradingState
               ELSE IF PassesEarlierChecks(tasks[i].decision)
               THEN /\ tradingState'.tradingHalted
                    /\ tradingState'.haltReason = DailyLossHaltReason
                    /\ tasks'[i].reason = DailyLossReason
               ELSE tradingState' = tradingState ]_vars

\* C7 witness: the breaker tripped on a decision that has been rejected for
\* the daily loss.
C7_Witness ==
    /\ LossLimitHit
    /\ tradingState.tradingHalted
    /\ tradingState.haltReason = DailyLossHaltReason
    /\ \E i \in DOMAIN tasks :
         /\ tasks[i].status = "rejected" /\ tasks[i].reason = DailyLossReason
         /\ HasEntry(i, "rejected", DailyLossReason)

IsEmergencyReason(text) == Len(text) >= 1 /\ text[1] = "Emergency"

\* C9: a halt set by an EMERGENCY_STOP decision is never cleared by the
\* process, whatever the reasoning text of the decision.
C9_EmergencyHaltNeverCleared ==
    [][ ( /\ tradingState.tradingHalted
          /\ IsEmergencyReason(tradingState.haltReason) )
        => tradingState'.tradingHalted ]_vars

\* C10: when the halt was set by the daily-loss check of validateDecision,
\* resetDailyStats clears it (tradingHalted false, haltReason null).
C10_ResetClearsDailyLossHalt ==
    [][ ( /\ ResetStep
          /\ tradingState.tradingHalted
          /\ tradingState.haltReason = DailyLossHaltReason )
        => ( /\ ~tradingState'.tradingHalted
             /\ tradingState'.haltReason = NullText ) ]_vars

\* C11: with tradingConfig.enabled false, executeTrade is never invoked and
\* no order is submitted; a decision that passes validateDecision is logged
\* 'simulated' (and changes nothing in tradingState).
C11_DisabledOnlySimulates ==
    [][ ~tradingConfig.enabled =>
          /\ \A i \in DOMAIN tasks' :
               /\ tasks'[i].executeCalls = 0
               /\ tasks'[i].submissions = 0
               /\ tasks'[i].pc \in {"logReceived", "logTerminal"}
          /\ \A i \in DOMAIN tasks :
               ( /\ ValidationStep(i)
                 /\ OtherwiseValid(tasks[i].decision)
                 /\ tradingState.dailyTradeCount < tradingConfig.maxDailyTrades )
               => /\ tasks'[i].status = "simulated"
                  /\ tradeHistory'[i] =
                       Append(tradeHistory[i], LogEntry("simulated", NullText))
                  /\ tradingState' = tradingState ]_vars

\* C11 witness: with the switch off, a valid BUY has been logged 'simulated'
\* and a second valid decision after it as well.
C11_Witness ==
    /\ ~tradingConfig.enabled
    /\ \E i, j \in 1..Len(tradeHistory) :
         /\ i < j
         /\ HasEntry(i, "simulated", NullText)
         /\ HasEntry(j, "simulated", NullText)

\* The eight checks in the order stated, each with whether it fails in the
\* current state and the reason it gives.
ValidationChecks(d) ==
    << [fails |-> tradingState.tradingHalted,
        reason |-> <<"Trading", "halted:">> \o tradingState.haltReason],
       [fails |-> ~(d.action = "BUY" \/ d.action = "SELL"),
        reason |-> InvalidActionReason],
       [fails |-> d.symbol \notin tradingConfig.allowedSymbols,
        reason |-> SymbolReason],
       [fails |-> d.confidence < tradingConfig.minConfidence,
        reason |-> ConfidenceReason],
       [fails |-> tradingState.dailyTradeCount >= tradingConfig.maxDailyTrades,
        reason |-> DailyLimitReason],
       [fails |-> tradingState.dailyPnL <= -tradingConfig.maxDailyLossUSD,
        reason |-> DailyLossReason],
       [fails |-> now - tradingState.lastTradeTime < tradingConfig.cooldownMs,
        reason |-> CooldownReason],
       [fails |-> ~lighterConfig.hasKeys,
        reason |-> CredentialsReason] >>

FirstFailing(checks) ==
    CHOOSE k \in 1..Len(checks) :
        checks[k].fails /\ \A j \in 1..(k - 1) : ~checks[j].fails

\* C12: validateDecision applies its checks in the order halted, action,
\* symbol, confidence, daily trade count, daily loss, cooldown, credentials;
\* the reason returned is that of the first failing check, and the decision
\* is valid exactly when no check fails.
C12_FirstFailingCheckDecides ==
    [][ \A i \in DOMAIN tasks :
          ValidationStep(i) =>
            LET checks == ValidationChecks(tasks[i].decision)
            IN  IF \E k \in 1..Len(checks) : checks[k].fails
                THEN /\ tasks'[i].status = "rejected"
                     /\ tasks'[i].reason = checks[FirstFailing(checks)].reason
                ELSE /\ tasks'[i].status \in {"simulated", "executing"}
                     /\ tasks'[i].reason = NullText ]_vars

\* C12 witness: a decision that fails the symbol, the confidence, the daily
\* trade count and the credentials check was rejected for its symbol.
C12_Witness ==
    /\ ~tradingState.tradingHalted /\ ~lighterConfig.hasKeys
    /\ tradingState.dailyTradeCount >= tradingConfig.maxDailyTrades
    /\ \E i \in DOMAIN tasks :
         /\ tasks[i].decision.symbol = "DOGE"
         /\ tasks[i].decision.confidence < tradingConfig.minConfidence
         /\ tasks[i].status = "rejected"
         /\ tasks[i].reason = SymbolReason

\* The daily-loss branch of validateDecision is taken: every earlier check
\* passes and dailyPnL is at or below -maxDailyLossUSD.
LossBranchTaken(d) ==
    /\ ~tradingState.tradingHalted
    /\ d.action \in {"BUY", "SELL"}
    /\ PassesEarlierChecks(d)
    /\ LossLimitHit

\* C13: validateDecision leaves tradingState unchanged, except that its
\* daily-loss branch sets tradingHalted to true and haltReason; it never
\* changes lastTradeTime, dailyTradeCount, dailyPnL or lastDecisionId.
C13_ValidateFrame ==
    [][ \A i \in DOMAIN tasks :
          ValidationStep(i) =>
            /\ tradingState'.lastTradeTime = tradingState.lastTradeTime
            /\ tradingState'.dailyTradeCount = tradingState.dailyTradeCount
            /\ tradingState'.dailyPnL = tradingState.dailyPnL
            /\ tradingState'.lastDecisionId = tradingState.lastDecisionId
            /\ IF LossBranchTaken(tasks[i].decision)
               THEN /\ tradingState'.tradingHalted
                    /\ tradingState'.haltReason = DailyLossHaltReason
               ELSE tradingState' = tradingState ]_vars

\* C13 witness: the daily-loss branch halted trading on a day with trades
\* already counted, and the count and the last trade time are still there.
C13_Witness ==
    /\ tradingState.tradingHalted
    /\ tradingState.haltReason = DailyLossHaltReason
    /\ tradingState.dailyTradeCount > 0
    /\ tradingState.lastTradeTime > 0
    /\ \E i \in DOMAIN tasks :
         /\ tasks[i].validations = 1
         /\ tasks[i].reason = DailyLossReason

\* A processDecision call reaches its outcome without a successful
\* executeTrade: HOLD, emergency_stop, rejected, simulated or failed.
OutcomeWithoutTradeStep(i) ==
    /\ i \in DOMAIN tasks
    /\ tasks[i].pc \notin {"logTerminal"}
    /\ \/ i \notin DOMAIN tasks'
       \/ /\ tasks'[i].pc = "logTerminal"
          /\ tasks'[i].status \in {"emergency_stop", "rejected", "simulated", "failed"}

\* C14 as stated: lastTradeTime and dailyTradeCount change only in the step
\* that follows an executeTrade returning success, where dailyTradeCount
\* grows by exactly 1.
C14_ChangeOnlyOnSuccess ==
    [][ ( \/ tradingState'.lastTradeTime # tradingState.lastTradeTime
          \/ tradingState'.dailyTradeCount # tradingState.dailyTradeCount )
        => /\ \E i \in DOMAIN tasks : SuccessStep(i)
           /\ tradingState'.dailyTradeCount = tradingState.dailyTradeCount + 1 ]_vars

\* C14 amended: lastTradeTime changes only in the step that follows an
\* executeTrade returning success; dailyTradeCount changes only in that step,
\* where it grows by exactly 1, and in resetDailyStats, which sets it to 0.
\* Decisions ending as HOLD, emergency_stop, rejected, simulated or failed
\* leave both unchanged.
C14_ChangeOnlyOnSuccessOrReset ==
    [][ /\ tradingState'.lastTradeTime # tradingState.lastTradeTime
           => \E i \in DOMAIN tasks : SuccessStep(i)
        /\ tradingState'.dailyTradeCount # tradingState.dailyTradeCount
           => \/ /\ \E i \in DOMAIN tasks : SuccessStep(i)
                 /\ tradingState'.dailyTradeCount = tradingState.dailyTradeCount + 1
              \/ /\ ResetStep
                 /\ tradingState'.dailyTradeCount = 0
        /\ \A i \in DOMAIN tasks :
             SuccessStep(i) =>
               /\ tradingState'.lastTradeTime = now
               /\ tradingState'.dailyTradeCount = tradingState.dailyTradeCount + 1
        /\ \A i \in DOMAIN tasks :
             OutcomeWithoutTradeStep(i) =>
               /\ tradingState'.lastTradeTime = tradingState.lastTradeTime
               /\ tradingState'.dailyTradeCount = tradingState.dailyTradeCount ]_vars

\* C14 witness: one trade executed and was counted; a later decision, entering
\* executeTrade after the cooldown, failed at the gateway and left the count
\* and the last trade time as they were.
C14_Witness ==
    /\ tradingState.dailyTradeCount = 1
    /\ tradingState.lastTradeTime = CooldownMs
    /\ now > tradingState.lastTradeTime
    /\ \E i, j \in 1..Len(tradeHistory) :
         /\ i < j
         /\ HasEntry(i, "executed", NullText)
         /\ HasEntry(j, "failed", <<"gateway", "failure">>)

\* executeTrade has sized the order of call i in this step.
SizingStep(i) ==
    /\ i \in DOMAIN tasks /\ i \in DOMAIN tasks'
    /\ tasks[i].pc = "getMarketPrice" /\ tasks'[i].pc = "throttle"

\* C15: the notional executeTrade computes is min(position_size if
\* provided, else maxPositionSizeUSD * confidence; maxPositionSizeUSD), so it
\* never exceeds maxPositionSizeUSD, and the quantity is notional / price:
\* max 100, confidence 0.5, no position_size, price 50000 give 50 and 0.001;
\* max 100, confidence 0.9, price 2000 give 90 and 0.045.
C15_NotionalCappedQuantityByPrice ==
    [][ \A i \in DOMAIN tasks :
          SizingStep(i) =>
            LET d == tasks[i].decision
                o == tasks'[i].order
                max == tradingConfig.maxPositionSizeUSD
                wanted == IF d.position_size # NoPositionSize
                          THEN d.position_size
                          ELSE (max * d.confidence) \div 100
            IN  /\ o.finalSizeUSD = (IF wanted < max THEN wanted ELSE max)
                /\ o.finalSizeUSD <= max
                /\ o.tokenAmount * o.price = o.finalSizeUSD * QuantityScale
                /\ ( max = 100 /\ d.confidence = 50 /\ o.price = 50000
                     /\ d.position_size = NoPositionSize )
                   => (o.finalSizeUSD = 50 /\ o.tokenAmount = 1000)
                /\ ( max = 100 /\ d.confidence = 90 /\ o.price = 2000
                     /\ d.position_size = NoPositionSize )
                   => (o.finalSizeUSD = 90 /\ o.tokenAmount = 45000) ]_vars

\* C15 witness: an order for a decision asking for 500 USD was sized at the
\* 100 USD cap, 0.05 of a token at 2000.
C15_Witness ==
    \E i \in DOMAIN tasks :
        /\ tasks[i].pc = "throttle"
        /\ tasks[i].decision.position_size > tradingConfig.maxPositionSizeUSD
        /\ tasks[i].order.finalSizeUSD = tradingConfig.maxPositionSizeUSD
        /\ tasks[i].order.price = 2000
        /\ tasks[i].order.tokenAmount = 50000

\* The send_tx call of call i came back without success in this step.
GatewayFailureStep(i) ==
    /\ i \in DOMAIN tasks /\ i \in DOMAIN tasks'
    /\ tasks[i].pc = "sendTx" /\ tasks'[i].pc # "sendTx"
    /\ tasks'[i].status # "executed"

\* C16: a processed decision causes at most one order submission; after a
\* gateway rejection, transport error or timeout the order is not submitted
\* again and the decision ends 'failed', carrying the gateway's error.
C16_AtMostOneSubmission ==
    [][ /\ \A i \in DOMAIN tasks' : tasks'[i].submissions <= 1
        /\ \A i \in DOMAIN tasks :
             GatewayFailureStep(i) =>
               /\ tasks'[i].pc = "logTerminal"
               /\ tasks'[i].status = "failed"
               /\ tasks'[i].reason = <<"gateway", "failure">>
               /\ tasks'[i].submissions = 1
               /\ tradeHistory'[i] =
                    Append(tradeHistory[i],
                           LogEntry("failed", <<"gateway", "failure">>))
        /\ \A i \in DOMAIN tasks :
             tasks[i].status = "failed" =>
               \/ i \notin DOMAIN tasks'
               \/ /\ tasks'[i].status = "failed"
                  /\ tasks'[i].submissions = tasks[i].submissions
                  /\ tradeHistory'[i] = tradeHistory[i] ]_vars

\* C16 witness: a call whose one submission failed at the gateway has
\* returned, its last log entry being 'failed' with the gateway's error.
C16_Witness ==
    \E i \in 1..Len(tradeHistory) :
        /\ i \notin DOMAIN tasks
        /\ Len(tradeHistory[i]) = 2
        /\ tradeHistory[i][2] = LogEntry("failed", <<"gateway", "failure">>)

IsPrefix(s, t) == Len(s) <= Len(t) /\ \A k \in 1..Len(s) : s[k] = t[k]

C18_HoldOnlyReceived ==
    [][ /\ \A i \in DOMAIN tasks' \ DOMAIN tasks :
             tasks'[i].decision.action = "HOLD" =>
               /\ tradingState' =
                    [tradingState EXCEPT
                       !.lastDecisionId = tasks'[i].decision.timestamp]
               /\ tradeHistory'[i] = <<LogEntry("received", NullText)>>
        /\ \A i \in DOMAIN tasks :
             tasks[i].decision.action = "HOLD" =>
               /\ tasks[i].validations = 0
               /\ tasks[i].executeCalls = 0
               /\ tasks[i].submissions = 0
               /\ tradeHistory[i] = <<LogEntry("received", NullText)>>
               /\ tradeHistory'[i] = tradeHistory[i]
               /\ i \in DOMAIN tasks' => tasks'[i] = tasks[i]
               /\ i \notin DOMAIN tasks' => tradingState' = tradingState ]_vars

\* C18 witness: the call for a HOLD decision has returned; the history holds
\* its 'received' entry only and tradingState differs from the initial one in
\* lastDecisionId only.
C18_Witness ==
    /\ Len(processed) = 1 /\ DOMAIN tasks = {}
    /\ tradeHistory = << <<LogEntry("received", NullText)>> >>
    /\ tradingState =
         [InitialTradingState EXCEPT !.lastDecisionId = processed[1]]

\* executeTrade returned success = false to call i in this step: no market
\* price, a failed signature or auth token, or a failed send_tx.
ExecutionFailedStep(i) ==
    /\ i \in DOMAIN tasks /\ i \in DOMAIN tasks'
    /\ InSpan(i)
    /\ tasks'[i].status = "failed"

\* C19: a failed execution is logged 'failed' and leaves tradingHalted,
\* haltReason, lastTradeTime and dailyTradeCount unchanged, so it starts no
\* cooldown for the decisions that follow.
C19_FailureLeavesStateAlone ==
    [][ \A i \in DOMAIN tasks :
          ExecutionFailedStep(i) =>
            /\ tradeHistory'[i] =
                 Append(tradeHistory[i], LogEntry("failed", tasks'[i].reason))
            /\ tradingState'.tradingHalted = tradingState.tradingHalted
            /\ tradingState'.haltReason = tradingState.haltReason
            /\ tradingState'.lastTradeTime = tradingState.lastTradeTime
            /\ tradingState'.dailyTradeCount = tradingState.dailyTradeCount
            /\ \A d \in Decisions :
                 validateDecision(d, tradingState', tradingConfig,
                                  lighterConfig, now).valid
                 = validateDecision(d, tradingState, tradingConfig,
                                    lighterConfig, now).valid ]_vars

\* C19 witness: the first call failed at the gateway and has returned; the
\* next decision executed at the same instant, as the day's first trade.
C19_Witness ==
    /\ Len(processed) = 2 /\ 1 \notin DOMAIN tasks
    /\ HasEntry(1, "failed", <<"gateway", "failure">>)
    /\ HasEntry(2, "executed", NullText)
    /\ now = CooldownMs
    /\ tradingState.lastTradeTime = now
    /\ tradingState.dailyTradeCount = 1
    /\ ~tradingState.tradingHalted

\* The midnights that have passed since the construction (in day 1).
MidnightsPassed == (now \div DayLength) - 1

\* C20: dailyTradeCount and dailyPnL are reset to 0 exactly once per UTC
\* day, at UTC midnight: the first reset fires at the first midnight after
\* the construction, each later one a day after the one before, the clock
\* leaves no midnight before that midnight's reset has run, and nothing
\* else sets dailyTradeCount back to 0.
C20_ResetOncePerDayAtMidnight ==
    [][ /\ ResetStep =>
             /\ now % DayLength = 0
             /\ now = (resets + 2) * DayLength
             /\ tradingState'.dailyTradeCount = 0
             /\ tradingState'.dailyPnL = 0
        /\ (now' # now /\ resets < MaxDays) => resets = MidnightsPassed
        /\ tradingState'.dailyTradeCount < tradingState.dailyTradeCount
             => ResetStep ]_vars

\* C20 witness: a trade was counted on the day of construction, the timer
\* has fired at both midnights since, and the count is back at 0.
C20_Witness ==
    /\ resets = 2 /\ now = 3 * DayLength
    /\ tradingState.dailyTradeCount = 0
    /\ tradingState.lastTradeTime \in DayLength..(2 * DayLength - 1)
    /\ \E i \in 1..Len(tradeHistory) : HasEntry(i, "executed", NullText)

\* C21: when shutdown is requested while an executeTrade call is in flight,
\* the process does not exit until that call has finished and its outcome
\* has been applied to tradingState and written to the trade log: at exit no
\* call that entered executeTrade is still unreturned.
C21_ExitWaitsForExecution ==
    service.phase = "exited" =>
        \A i \in DOMAIN tasks : tasks[i].executeCalls = 0

\* A data or health timer fired in this step and did more than return.
PeriodicEffectStep ==
    /\ Len(periodic') = Len(periodic) + 1
    /\ periodic'[Len(periodic')].outcome # "skipped"

\* C22: once shutdown() has begun, no snapshot delivered afterwards is
\* passed to processDecision and no periodic task firing afterwards (market
\* data, agent context, Lighter data, health check, daily reset) performs a
\* fetch, a store write or a state reset.
C22_NothingStartsAfterShutdown ==
    [][ ~service.isRunning =>
          /\ processed' = processed
          /\ ~PeriodicEffectStep
          /\ ~ResetStep ]_vars

\* A data or health timer fired in this step and its fetch or write failed.
PeriodicFailureStep ==
    /\ Len(periodic') = Len(periodic) + 1
    /\ periodic'[Len(periodic')].outcome = "failed"

\* C23: a failure during one firing of a periodic task never prevents later
\* firings of that task, firings of other periodic tasks or the processing
\* of decisions: the failed firing leaves the process alive, the listener
\* subscribed, and every in-flight call and tradingState as they were.
C23_FiringFailureIsContained ==
    [][ PeriodicFailureStep =>
          /\ service' = service
          /\ service'.phase # "exited"
          /\ tasks' = tasks
          /\ tradingState' = tradingState
          /\ resets' = resets /\ resetTimer' = resetTimer ]_vars

\* C23 witness: the market data firing failed, its next firing succeeded,
\* and a decision has been executed with the service still running.
C23_Witness ==
    /\ service = ServiceStarted
    /\ periodic = << [task |-> "marketData", outcome |-> "failed"],
                     [task |-> "marketData", outcome |-> "ok"] >>
    /\ \E i \in 1..Len(tradeHistory) : HasEntry(i, "executed", NullText)

\* C24: when the Lighter credentials are not configured, no order is ever
\* submitted: no call enters executeTrade or submits, every BUY or SELL that
\* passes the other checks ends 'rejected' with the credentials reason and
\* leaves tradingState alone, and the process keeps running and logging.
C24_NoCredentialsNoOrder ==
    [][ ~lighterConfig.hasKeys =>
          /\ \A i \in DOMAIN tasks' :
               /\ tasks'[i].executeCalls = 0
               /\ tasks'[i].submissions = 0
          /\ \A i \in DOMAIN tasks : ~SubmissionStep(i)
          /\ \A i \in DOMAIN tasks :
               ( /\ ValidationStep(i)
                 /\ \A k \in 1..7 :
                      ~ValidationChecks(tasks[i].decision)[k].fails )
               => /\ tasks'[i].status = "rejected"
                  /\ tasks'[i].pc = "logTerminal"
                  /\ tradeHistory'[i] =
                       Append(tradeHistory[i],
                              LogEntry("rejected", CredentialsReason))
                  /\ tradingState' = tradingState
          /\ service' = ServiceStarted
          /\ lighterConfig' = lighterConfig ]_vars

\* C24 witness: without credentials and with trading enabled, a BUY that
\* passes every other check has been rejected for the missing credentials,
\* and a later decision has been received and logged.
C24_Witness ==
    /\ ~lighterConfig.hasKeys /\ tradingConfig.enabled
    /\ Len(processed) >= 2
    /\ HasEntry(1, "rejected", CredentialsReason)
    /\ HasEntry(2, "received", NullText)
    /\ service = ServiceStarted

\* The log write of call i returned in this step with an error.
WriteFailedStep(i) ==
    <<i, Len(tradeHistory[i])>> \in lostWrites' \ lostWrites

C26_ReconnectAttemptsBounded == lbs.attempts <= MaxReconnectAttempts

\* C27: on the RL80 path a decision that arrives while another decision is
\* executing is not lost: once no execution is in flight any more, it has
\* been evaluated against the safety checks with the lock free.
C27_WaitingDecisionEvaluated ==
    \A k \in 1..Len(rl80.handled) :
        ( /\ rl80.handled[k].executing
          /\ rl80.handled[k].verdict # "duplicate"
          /\ rl80.calls = << >> )
        => \E j \in (k + 1)..Len(rl80.handled) :
             /\ rl80.handled[j].decision = rl80.handled[k].decision
             /\ ~rl80.handled[j].executing
             /\ rl80.handled[j].verdict # "duplicate"

\* A snapshot with decision d was handled in this step.
RL80DeliveredStep(d) ==
    /\ Len(rl80'.handled) = Len(rl80.handled) + 1
    /\ rl80'.handled[Len(rl80'.handled)].decision = d

\* C29: on the RL80 path at most one executeRL80Decision call is in flight:
\* a decision delivered while isExecuting is true fails passesSafetyChecks
\* (or is a duplicate) and starts no execution.
C29_OneExecutionInFlight ==
    [][ /\ Len(rl80'.calls) <= 1
        /\ \A d \in RL80Decisions :
             (RL80DeliveredStep(d) /\ rl80.isExecuting) =>
                /\ rl80'.handled[Len(rl80'.handled)].verdict
                      \in {"duplicate", "cooldown", "busy"}
                /\ rl80'.calls = rl80.calls ]_vars

\* C29 witness: while one execution is in flight a second decision, which
\* passes every other check, has been turned away by the lock.
C29_Witness ==
    /\ Len(rl80.calls) = 1
    /\ Len(rl80.handled) = 2
    /\ rl80.handled[1].verdict = "passed"
    /\ rl80.handled[2].verdict = "busy"
    /\ rl80.handled[2].decision.action = "BUY"
    /\ rl80.handled[2].decision.confidence >= RL80MinConfidence

\* C30: on the RL80 path, once an EMERGENCY_STOP has been delivered no BUY
\* or SELL delivered afterwards is executed, whatever the stop's confidence
\* and whether it arrived in the cooldown or during an execution.
C30_EmergencyStopHaltsRL80 ==
    [][ (\E k \in 1..Len(rl80.handled) :
            rl80.handled[k].decision.action = "EMERGENCY_STOP") =>
          \A d \in RL80Decisions :
             (RL80DeliveredStep(d) /\ d.action \in {"BUY", "SELL"}) =>
                rl80'.handled[Len(rl80'.handled)].verdict # "passed" ]_vars

\* C28: every decision that passes dedupe eventually reaches a terminal
\* outcome, its processDecision call returning, even when a collaborator
\* never responds: every call awaited on the way is bounded by a timeout.
C28_EveryDecisionTerminates ==
    \A i \in 1..MaxDeliveries :
        (i \in DOMAIN tasks) ~> (i \notin DOMAIN tasks)

\* passesSafetyChecks has taken an EMERGENCY_STOP, which holds the guard.
RL80StopTaken ==
    \E k \in 1..Len(rl80.handled) : rl80.handled[k].verdict = "emergencyStop"

RL80NoTradeStep(k) ==
    /\ k \in 1..Len(rl80.calls) /\ k \in 1..Len(rl80'.calls)
    /\ rl80.calls[k].pc = "order" /\ rl80'.calls[k].pc = "log"
    /\ rl80'.calls[k].outcome \in {"held", "skipped"}

\* C32: on the RL80 path the cooldown and the daily count are consumed only
\* by executed trades: a HOLD, or a SELL skipped because there is no
\* position, leaves lastExecutionTime and executionCount unchanged.
C32_OnlyTradesConsumeCooldown ==
    [][ \A k \in 1..Len(rl80.calls) :
          RL80NoTradeStep(k) =>
             /\ rl80'.lastExecutionTime = rl80.lastExecutionTime
             /\ rl80'.executionCount = rl80.executionCount ]_vars

\* Call j is an EMERGENCY_STOP decision, still in flight or already logged.
IsEmergencyStopCall(j) ==
    \/ j \in DOMAIN tasks /\ tasks[j].decision.action = "EMERGENCY_STOP"
    \/ HasEntry(j, "emergency_stop", NullText)

\* C33: a BUY or SELL decision delivered after an EMERGENCY_STOP decision
\* never results in an order submission while no reset has cleared the
\* halt, for every interleaving of the log writes of the two decisions.
C33_NoSubmissionAfterEmergencyStop ==
    [][ \A i \in DOMAIN tasks :
          (SubmissionStep(i) /\ resets = 0) =>
             ~\E j \in 1..(i - 1) : IsEmergencyStopCall(j) ]_vars

\* C34: dailyTradeCount never exceeds maxDailyTrades, for every sequence
\* and interleaving of deliveries, executions and daily resets.
C34_DailyCountWithinLimit ==
    tradingState.dailyTradeCount <= tradingConfig.maxDailyTrades

TerminalStatuses ==
    {"emergency_stop", "rejected", "simulated", "executed", "failed", "error"}

\* Call i wrote a log entry with this status in this step.
EntryWrittenStep(i, status) ==
    /\ i \in 1..Len(tradeHistory)
    /\ Len(tradeHistory'[i]) = Len(tradeHistory[i]) + 1
    /\ tradeHistory'[i][Len(tradeHistory'[i])].status = status

\* C35: the entries written for one processed decision follow the state
\* machine: 'received' first, then exactly one terminal entry for every
\* action other than HOLD and none for HOLD, the terminal entry being the
\* call's outcome; 'executed' is written only in the step that follows a
\* send_tx submission that succeeded.
C35_EntriesFollowStateMachine ==
    [][ /\ \A i \in 1..Len(tradeHistory') :
             /\ tradeHistory'[i][1].status = "received"
             /\ \A k \in 2..Len(tradeHistory'[i]) :
                  /\ k = 2
                  /\ tradeHistory'[i][k].status \in TerminalStatuses
        /\ \A i \in DOMAIN tasks' :
             /\ tasks'[i].decision.action = "HOLD" => Len(tradeHistory'[i]) = 1
             /\ Len(tradeHistory'[i]) = 2 =>
                  /\ tasks'[i].pc = "logTerminal"
                  /\ tradeHistory'[i][2].status = tasks'[i].status
        /\ \A i \in DOMAIN tasks :
             /\ i \notin DOMAIN tasks' =>
                  Len(tradeHistory'[i]) =
                    (IF tasks[i].decision.action = "HOLD" THEN 1 ELSE 2)
             /\ EntryWrittenStep(i, "executed") =>
                  /\ tasks[i].pc = "sendTx"
                  /\ tasks[i].submissions = 1
                  /\ tasks'[i].status = "executed" ]_vars

\* C35 witness: a rejected decision, a failed one and an executed one have
\* each left 'received' and their terminal entry, the executed one after a
\* submission.
C35_Witness ==
    /\ Len(tradeHistory) = 3 /\ DOMAIN tasks = {}
    /\ \A i \in 1..3 : Len(tradeHistory[i]) = 2
    /\ \E i, j, k \in 1..3 :
         /\ tradeHistory[i][2].status = "rejected"
         /\ tradeHistory[j][2].status = "failed"
         /\ tradeHistory[k][2].status = "executed"
    /\ \A i \in 1..3 : tradeHistory[i][1].status = "received"

\* C36: the returns of any two calls of RateLimiter.throttle, concurrent
\* calls included, are at least minInterval apart.
C36_ReturnsMinIntervalApart ==
    \A a, b \in 1..Len(limiter.returns) :
        a < b => limiter.returns[b] - limiter.returns[a] >= MinInterval

\* C37: in LighterBackgroundService at most one reconnection timer is
\* pending at any time, also when one WebSocket failure emits both an
\* 'error' and a 'close' event.
C37_OneReconnectTimerPending == lbs.timers <= 1

\* C38: every successful order submission is followed by an 'executed'
\* entry in the trade history, also when this.db is set to null after the
\* listener has started: a returned call that executed a trade has its
\* 'executed' entry in the store.
C38_ExecutedTradeHasRecord ==
    \A i \in 1..Len(tradeHistory) :
        ( /\ i \notin DOMAIN tasks
          /\ HasEntry(i, "executed", NullText) )
        => <<i, 2>> \notin lostWrites

\* A step in which tradingHalted goes from false to true.
HaltSetStep == ~tradingState.tradingHalted /\ tradingState'.tradingHalted

============================================================================
